---- MODULE Spec2Model ----
(***************************************************************************)
(* Membership lifecycle of the planner backend: the team_members table,   *)
(* the pending invites, and the TeamService / InviteService handlers that  *)
(* read and write them (backend/services/team_service.py,                  *)
(* backend/services/invite_service.py, backend/core/permissions.py,        *)
(* backend/repositories/team_repository.py).                               *)
(*                                                                         *)
(* The team_members table has no uniqueness constraint on                  *)
(* (team_id, user_id) (backend/models/team.py:117-124), so the table is    *)
(* modelled as, for every (team_id, user_id), the sequence of the role     *)
(* strings of its rows in rowid order.  Query.first() without ORDER BY on  *)
(* the SQLite engine the application is bound to (backend/database.py:32)  *)
(* returns the row with the lowest rowid, i.e. the head of the sequence.   *)
(***************************************************************************)
EXTENDS Integers, Sequences, FiniteSets, TLC

VARIABLES teams, members, invites, lastOp, xfer, crm, perm, todos, todo_assignments,
          rm, upd

vars == <<teams, members, invites, lastOp, xfer, crm, perm, todos, todo_assignments,
         rm, upd>>

(***************************************************************************)
(* Bounds of the model.                                                    *)
(***************************************************************************)
\* total number of team_members rows the model lets the table hold
MaxRows == 3

\* number of rows the model lets the todos table hold
MaxTodos == 2

\* ids the teams table hands out
TeamIds == {1}

\* ids of the registered users
Users == {1, 2, 3}

\* a user id that no row of the users table has
GhostUser == 9

UserIds == Users \cup {GhostUser}

(***************************************************************************)
(* Taxonomy (backend/core/permissions.py).                                 *)
(***************************************************************************)
Role == {"owner", "admin", "manager", "editor", "viewer", "guest"}

\* role strings a caller may send: the six roles and one string that is not
\* a Role ("member" is the word the TeamMember docstring uses)
RoleStrings == Role \cup {"member"}

\* member_data without a 'role' key
Absent == "<absent>"

RoleInputs == RoleStrings \cup {Absent}

None == "<none>"

ROLE_PRIORITY ==
    [r \in Role |->
        CASE r = "owner"   -> 6
          [] r = "admin"   -> 5
          [] r = "manager" -> 4
          [] r = "editor"  -> 3
          [] r = "viewer"  -> 2
          [] r = "guest"   -> 1]

\* ROLE_PRIORITY.get(role, 0)
ROLE_PRIORITY_get(r) == IF r \in DOMAIN ROLE_PRIORITY THEN ROLE_PRIORITY[r] ELSE 0

\* role_priorities with "manager" and "editor" given each other's rank
role_priorities_swapped ==
    [r \in {"owner", "admin", "manager", "editor", "viewer", "guest"} |->
        CASE r = "owner"   -> 6
          [] r = "admin"   -> 5
          [] r = "manager" -> 3
          [] r = "editor"  -> 4
          [] r = "viewer"  -> 2
          [] r = "guest"   -> 1]

\* the table hard-coded in TeamService.update_member_role
role_priorities ==
    [r \in {"owner", "admin", "manager", "editor", "viewer", "guest"} |->
        CASE r = "owner"   -> 6
          [] r = "admin"   -> 5
          [] r = "manager" -> 4
          [] r = "editor"  -> 3
          [] r = "viewer"  -> 2
          [] r = "guest"   -> 1]

\* role_priorities.get(role, 0)
role_priorities_get(r) == IF r \in DOMAIN role_priorities THEN role_priorities[r] ELSE 0

(***************************************************************************)
(* Permission matrix (backend/core/permissions.py:19-157, 181-185).  A     *)
(* role's authored list is modelled as the set of its entries: the code    *)
(* only tests membership in it.                                            *)
(***************************************************************************)
TeamPermissions ==
    {"team_create", "team_update", "team_delete", "team_invite", "team_remove_owner",
     "team_remove_admin", "team_remove_member", "team_view_analytics"}

PlannerPermissions ==
    {"planner_create", "planner_update", "planner_delete", "planner_assign",
     "planner_view", "planner_approve"}

TodoPermissions ==
    {"todo_create", "todo_update", "todo_delete", "todo_assign", "todo_view",
     "todo_complete"}

PostPermissions ==
    {"post_create", "post_update", "post_delete", "post_view", "post_approve"}

Permission == TeamPermissions \cup PlannerPermissions \cup TodoPermissions \cup PostPermissions

\* ROLE_PERMISSIONS with post_view missing from the GUEST list
ROLE_PERMISSIONS_guest_narrower ==
    [r \in Role |->
        CASE r = "owner"   -> Permission
          [] r = "admin"   -> {"team_update", "team_invite", "team_remove_member",
                               "team_view_analytics"}
                              \cup PlannerPermissions \cup TodoPermissions \cup PostPermissions
          [] r = "manager" -> {"team_invite", "team_remove_member", "team_view_analytics",
                               "planner_create", "planner_update", "planner_assign",
                               "planner_view",
                               "post_create", "post_update", "post_view"}
                              \cup TodoPermissions
          [] r = "editor"  -> {"planner_create", "planner_update", "planner_view",
                               "todo_create", "todo_update", "todo_view", "todo_complete",
                               "post_create", "post_update", "post_view"}
          [] r = "viewer"  -> {"planner_view", "todo_view", "post_view"}
          [] r = "guest"   -> {"planner_view", "todo_view"}]

ROLE_PERMISSIONS ==
    [r \in Role |->
        CASE r = "owner"   -> {"team_create", "team_update", "team_delete", "team_invite",
                               "team_remove_owner", "team_remove_admin",
                               "team_remove_member", "team_view_analytics",
                               "planner_create", "planner_update", "planner_delete",
                               "planner_assign", "planner_view", "planner_approve",
                               "todo_create", "todo_update", "todo_delete", "todo_assign",
                               "todo_view", "todo_complete",
                               "post_create", "post_update", "post_delete", "post_view",
                               "post_approve"}
          [] r = "admin"   -> {"team_update", "team_invite", "team_remove_member",
                               "team_view_analytics",
                               "planner_create", "planner_update", "planner_delete",
                               "planner_assign", "planner_view", "planner_approve",
                               "todo_create", "todo_update", "todo_delete", "todo_assign",
                               "todo_view", "todo_complete",
                               "post_create", "post_update", "post_delete", "post_view",
                               "post_approve"}
          [] r = "manager" -> {"team_invite", "team_remove_member", "team_view_analytics",
                               "planner_create", "planner_update", "planner_assign",
                               "planner_view",
                               "todo_create", "todo_update", "todo_delete", "todo_assign",
                               "todo_view", "todo_complete",
                               "post_create", "post_update", "post_view"}
          [] r = "editor"  -> {"planner_create", "planner_update", "planner_view",
                               "todo_create", "todo_update", "todo_view", "todo_complete",
                               "post_create", "post_update", "post_view"}
          [] r = "viewer"  -> {"planner_view", "todo_view", "post_view"}
          [] r = "guest"   -> {"planner_view", "todo_view", "post_view"}]

\* ROLE_PERMISSIONS.get(user_role, [])
ROLE_PERMISSIONS_get(user_role) ==
    IF user_role \in DOMAIN ROLE_PERMISSIONS THEN ROLE_PERMISSIONS[user_role] ELSE {}

\* has_permission without the "if not user_role" test of line 183, the
\* missing role falling through to the GUEST list
has_permission_none_as_guest(user_role, permission) ==
    IF user_role = None THEN permission \in ROLE_PERMISSIONS_get("guest")
    ELSE permission \in ROLE_PERMISSIONS_get(user_role)

\* has_permission: user_role is a Role member or None
has_permission(user_role, permission) ==
    IF user_role = None THEN FALSE
    ELSE permission \in ROLE_PERMISSIONS_get(user_role)

(***************************************************************************)
(* can_remove_member (backend/core/permissions.py:234-252).  Its role      *)
(* arguments are Role members.                                             *)
(***************************************************************************)
\* can_remove_member with the ADMIN clause of lines 244-246 granting every target
can_remove_member_admin_all(current_user_id, target_user_id, current_user_role, target_user_role) ==
    IF current_user_id = target_user_id THEN FALSE
    ELSE IF current_user_role = "owner" THEN TRUE
    ELSE IF current_user_role = "admin" THEN TRUE
    ELSE IF current_user_role = "manager"
            /\ ROLE_PRIORITY_get(target_user_role) <= ROLE_PRIORITY_get("editor") THEN TRUE
    ELSE FALSE

\* can_remove_member with < for <= in the ADMIN clause of line 245
can_remove_member_strict(current_user_id, target_user_id, current_user_role, target_user_role) ==
    IF current_user_id = target_user_id THEN FALSE
    ELSE IF current_user_role = "owner" THEN TRUE
    ELSE IF current_user_role = "admin"
            /\ ROLE_PRIORITY_get(target_user_role) < ROLE_PRIORITY_get("manager") THEN TRUE
    ELSE IF current_user_role = "manager"
            /\ ROLE_PRIORITY_get(target_user_role) <= ROLE_PRIORITY_get("editor") THEN TRUE
    ELSE FALSE

can_remove_member(current_user_id, target_user_id, current_user_role, target_user_role) ==
    IF current_user_id = target_user_id THEN FALSE
    ELSE IF current_user_role = "owner" THEN TRUE
    ELSE IF current_user_role = "admin"
            /\ ROLE_PRIORITY_get(target_user_role) <= ROLE_PRIORITY_get("manager") THEN TRUE
    ELSE IF current_user_role = "manager"
            /\ ROLE_PRIORITY_get(target_user_role) <= ROLE_PRIORITY_get("editor") THEN TRUE
    ELSE FALSE

(***************************************************************************)
(* TeamRepository (backend/repositories/team_repository.py).               *)
(***************************************************************************)
NoRows == [t \in TeamIds |-> [u \in Users |-> <<>>]]

RowsOf(m, team_id, user_id) ==
    IF team_id \in TeamIds /\ user_id \in Users THEN m[team_id][user_id] ELSE <<>>

RowCount(m) ==
    Cardinality({x \in TeamIds \X Users \X (1..(MaxRows + 1)) :
                    x[3] <= Len(m[x[1]][x[2]])})

\* TeamRepository.get_member: the role of the first matching row, or None
get_member(m, team_id, user_id) ==
    IF RowsOf(m, team_id, user_id) = <<>> THEN None
    ELSE Head(RowsOf(m, team_id, user_id))

\* TeamRepository.add_member: inserts a row, whatever the table holds
team_repo_add_member(m, team_id, user_id, role) ==
    [m EXCEPT ![team_id][user_id] = Append(@, role)]

\* TeamRepository.remove_member: deletes the first matching row, if any
team_repo_remove_member(m, team_id, user_id) ==
    IF RowsOf(m, team_id, user_id) = <<>> THEN m
    ELSE [m EXCEPT ![team_id][user_id] = Tail(@)]

\* TeamRepository.update_member_role: rewrites the first matching row, if any
team_repo_update_member_role(m, team_id, user_id, new_role) ==
    IF RowsOf(m, team_id, user_id) = <<>> THEN m
    ELSE [m EXCEPT ![team_id][user_id] = <<new_role>> \o Tail(@)]

\* the ValueError that Role(<string>) raises for a string that is no Role
RoleError == "<not a Role>"

\* get_user_role_in_team (backend/core/permissions.py:169-179): None without a
\* row, else Role(row.role)
get_user_role_in_team(m, user_id, team_id) ==
    IF get_member(m, team_id, user_id) = None THEN None
    ELSE IF get_member(m, team_id, user_id) \in Role THEN get_member(m, team_id, user_id)
    ELSE RoleError

(***************************************************************************)
(* Enforcement guards (backend/core/permissions.py:187-232).  A call of    *)
(* the dependency either returns the resolved role, raises                 *)
(* HTTPException(403) with a detail naming the required permission or      *)
(* minimum role, or lets the ValueError of Role(<string>) in               *)
(* get_user_role_in_team escape.                                           *)
(***************************************************************************)
GuardReturn(user_role) ==
    [kind |-> "return", user_role |-> user_role, status_code |-> 0, detail |-> <<>>]

\* HTTPException(status_code=403, detail=f"... {what}: {arg}")
GuardForbidden(what, arg) ==
    [kind |-> "HTTPException", user_role |-> None, status_code |-> 403,
     detail |-> <<what, arg>>]

GuardValueError ==
    [kind |-> "ValueError", user_role |-> None, status_code |-> 0, detail |-> <<RoleError>>]

\* permission_dependency of require_permission(permission)
permission_dependency(permission, m, team_id, user_id) ==
    LET user_role == get_user_role_in_team(m, user_id, team_id) IN
    IF user_role = RoleError THEN GuardValueError
    ELSE IF ~has_permission(user_role, permission)
    THEN GuardForbidden("required_permission", permission)
    ELSE GuardReturn(user_role)

\* role_dependency of require_role(minimum_role)
role_dependency(minimum_role, m, team_id, user_id) ==
    LET user_role == get_user_role_in_team(m, user_id, team_id) IN
    IF user_role = RoleError THEN GuardValueError
    ELSE IF user_role = None
            \/ ROLE_PRIORITY_get(user_role) < ROLE_PRIORITY_get(minimum_role)
    THEN GuardForbidden("minimum_role", minimum_role)
    ELSE GuardReturn(user_role)

(***************************************************************************)
(* TeamService (backend/services/team_service.py).  Every handler either   *)
(* raises ValueError with one of the messages below or completes; the      *)
(* *_error operators give the message a call raises in a given store, or   *)
(* "ok".                                                                   *)
(***************************************************************************)
\* add_member without the existing-member check of lines 146-149
add_member_error_nodup(ts, m, team_id, user_id, current_user_id) ==
    IF team_id \notin ts THEN "team_not_found"
    ELSE IF get_member(m, team_id, current_user_id) = None THEN "no_permission"
    ELSE IF get_member(m, team_id, current_user_id) \notin {"owner", "admin"} THEN "add_forbidden"
    ELSE IF user_id \notin Users THEN "user_not_found"
    ELSE "ok"

\* add_member, lines 117-149
add_member_error(ts, m, team_id, user_id, current_user_id) ==
    IF team_id \notin ts THEN "team_not_found"
    ELSE IF get_member(m, team_id, current_user_id) = None THEN "no_permission"
    ELSE IF get_member(m, team_id, current_user_id) \notin {"owner", "admin"} THEN "add_forbidden"
    ELSE IF user_id \notin Users THEN "user_not_found"
    ELSE IF get_member(m, team_id, user_id) # None THEN "already_member"
    ELSE "ok"

\* remove_member without the can_remove_member check of lines 178-179
remove_member_error_unranked(ts, m, team_id, user_id, current_user_id) ==
    IF team_id \notin ts THEN "team_not_found"
    ELSE IF get_member(m, team_id, current_user_id) = None THEN "no_permission"
    ELSE IF get_member(m, team_id, user_id) = None THEN "target_not_found"
    ELSE IF get_member(m, team_id, current_user_id) \notin Role THEN "invalid_role"
    ELSE IF get_member(m, team_id, user_id) \notin Role THEN "invalid_role"
    ELSE "ok"

\* remove_member, lines 155-179
remove_member_error(ts, m, team_id, user_id, current_user_id) ==
    IF team_id \notin ts THEN "team_not_found"
    ELSE IF get_member(m, team_id, current_user_id) = None THEN "no_permission"
    ELSE IF get_member(m, team_id, user_id) = None THEN "target_not_found"
    ELSE IF get_member(m, team_id, current_user_id) \notin Role THEN "invalid_role"
    ELSE IF get_member(m, team_id, user_id) \notin Role THEN "invalid_role"
    ELSE IF ~can_remove_member(current_user_id, user_id,
                               get_member(m, team_id, current_user_id),
                               get_member(m, team_id, user_id)) THEN "remove_forbidden"
    ELSE "ok"

\* update_member_role with the rank check of lines 220-224 moved before the
\* self-change and owner-target checks
update_member_role_error_rankfirst(ts, m, team_id, user_id, new_role, current_user_id) ==
    IF team_id \notin ts THEN "team_not_found"
    ELSE IF get_member(m, team_id, current_user_id) = None THEN "no_permission"
    ELSE IF get_member(m, team_id, user_id) = None THEN "target_not_found"
    ELSE IF role_priorities_get(new_role)
              >= role_priorities_get(get_member(m, team_id, current_user_id)) THEN "rank_too_high"
    ELSE IF user_id = current_user_id THEN "self_change"
    ELSE IF get_member(m, team_id, user_id) = "owner" THEN "target_is_owner"
    ELSE "ok"

\* update_member_role without the self-change check of lines 206-208
update_member_role_error_noself(ts, m, team_id, user_id, new_role, current_user_id) ==
    IF team_id \notin ts THEN "team_not_found"
    ELSE IF get_member(m, team_id, current_user_id) = None THEN "no_permission"
    ELSE IF get_member(m, team_id, user_id) = None THEN "target_not_found"
    ELSE IF get_member(m, team_id, user_id) = "owner" THEN "target_is_owner"
    ELSE IF role_priorities_get(new_role)
              >= role_priorities_get(get_member(m, team_id, current_user_id)) THEN "rank_too_high"
    ELSE "ok"

\* update_member_role without the owner-target check of lines 210-212
update_member_role_error_noowner(ts, m, team_id, user_id, new_role, current_user_id) ==
    IF team_id \notin ts THEN "team_not_found"
    ELSE IF get_member(m, team_id, current_user_id) = None THEN "no_permission"
    ELSE IF get_member(m, team_id, user_id) = None THEN "target_not_found"
    ELSE IF user_id = current_user_id THEN "self_change"
    ELSE IF role_priorities_get(new_role)
              >= role_priorities_get(get_member(m, team_id, current_user_id)) THEN "rank_too_high"
    ELSE "ok"

\* update_member_role with > for >= in the rank check of line 223
update_member_role_error_peer(ts, m, team_id, user_id, new_role, current_user_id) ==
    IF team_id \notin ts THEN "team_not_found"
    ELSE IF get_member(m, team_id, current_user_id) = None THEN "no_permission"
    ELSE IF get_member(m, team_id, user_id) = None THEN "target_not_found"
    ELSE IF user_id = current_user_id THEN "self_change"
    ELSE IF get_member(m, team_id, user_id) = "owner" THEN "target_is_owner"
    ELSE IF role_priorities_get(new_role)
              > role_priorities_get(get_member(m, team_id, current_user_id)) THEN "rank_too_high"
    ELSE "ok"

\* update_member_role, lines 188-224
update_member_role_error(ts, m, team_id, user_id, new_role, current_user_id) ==
    IF team_id \notin ts THEN "team_not_found"
    ELSE IF get_member(m, team_id, current_user_id) = None THEN "no_permission"
    ELSE IF get_member(m, team_id, user_id) = None THEN "target_not_found"
    ELSE IF user_id = current_user_id THEN "self_change"
    ELSE IF get_member(m, team_id, user_id) = "owner" THEN "target_is_owner"
    ELSE IF role_priorities_get(new_role)
              >= role_priorities_get(get_member(m, team_id, current_user_id)) THEN "rank_too_high"
    ELSE "ok"

\* leave_team without the owner check of lines 264-266
leave_team_error_ownerok(ts, m, team_id, current_user_id) ==
    IF team_id \notin ts THEN "team_not_found"
    ELSE IF get_member(m, team_id, current_user_id) = None THEN "not_member"
    ELSE "ok"

\* leave_team, lines 252-266
leave_team_error(ts, m, team_id, current_user_id) ==
    IF team_id \notin ts THEN "team_not_found"
    ELSE IF get_member(m, team_id, current_user_id) = None THEN "not_member"
    ELSE IF get_member(m, team_id, current_user_id) = "owner" THEN "owner_cannot_leave"
    ELSE "ok"

\* transfer_ownership with any member allowed to invoke it
transfer_ownership_error_anymember(ts, m, team_id, new_owner_id, current_user_id) ==
    IF team_id \notin ts THEN "team_not_found"
    ELSE IF get_member(m, team_id, current_user_id) = None THEN "not_owner"
    ELSE IF get_member(m, team_id, new_owner_id) = None THEN "new_owner_not_found"
    ELSE IF current_user_id = new_owner_id THEN "self_transfer"
    ELSE "ok"

\* transfer_ownership, lines 304-324
transfer_ownership_error(ts, m, team_id, new_owner_id, current_user_id) ==
    IF team_id \notin ts THEN "team_not_found"
    ELSE IF get_member(m, team_id, current_user_id) = None
            \/ get_member(m, team_id, current_user_id) # "owner" THEN "not_owner"
    ELSE IF get_member(m, team_id, new_owner_id) = None THEN "new_owner_not_found"
    ELSE IF current_user_id = new_owner_id THEN "self_transfer"
    ELSE "ok"

\* the writes of transfer_ownership with the demotion of the old owner left out
transfer_ownership_writes_nodemote(m, team_id, new_owner_id, current_user_id) ==
    team_repo_update_member_role(m, team_id, new_owner_id, "owner")

\* the two writes of transfer_ownership, lines 326-328, one after the other
transfer_ownership_writes(m, team_id, new_owner_id, current_user_id) ==
    team_repo_update_member_role(
        team_repo_update_member_role(m, team_id, new_owner_id, "owner"),
        team_id, current_user_id, "editor")

(***************************************************************************)
(* InviteService (backend/services/invite_service.py).  An invite is a     *)
(* row (team_id, user_id, status); create_invite refuses a second invite   *)
(* for the same (team_id, user_id), so the pair identifies the invite.     *)
(***************************************************************************)
InviteOf(inv, team_id, user_id) ==
    {i \in inv : i.team_id = team_id /\ i.user_id = user_id}

\* create_invite, lines 24-79
create_invite_error(ts, m, inv, team_id, user_id, current_user_id) ==
    IF team_id \notin ts THEN "team_not_found"
    ELSE IF user_id \notin Users THEN "user_not_found"
    ELSE IF get_member(m, team_id, current_user_id) = None THEN "not_member"
    ELSE IF get_member(m, team_id, current_user_id) \notin {"owner", "admin"} THEN "invite_forbidden"
    ELSE IF user_id = current_user_id THEN "self_invite"
    ELSE IF get_member(m, team_id, user_id) # None THEN "already_member"
    ELSE IF InviteOf(inv, team_id, user_id) # {} THEN "invite_exists"
    ELSE "ok"

\* accept_invite, lines 160-181, for the invite of (team_id, user_id)
accept_invite_error(inv, team_id, user_id, current_user_id) ==
    IF InviteOf(inv, team_id, user_id) = {} THEN "invite_not_found"
    ELSE IF user_id # current_user_id THEN "not_invitee"
    ELSE IF \A i \in InviteOf(inv, team_id, user_id) : i.status # "pending" THEN "not_pending"
    ELSE "ok"

(***************************************************************************)
(* Todos (backend/services/todo_service.py, backend/models/todo.py).  A    *)
(* todo belongs to a planner and a planner to a team; the model gives      *)
(* every team one planner, so a todo row carries its planner's team_id.    *)
(* todo_assignments has the primary key (todo_id, user_id).                *)
(***************************************************************************)
\* TodoService._validate_planner_access, lines 28-45, for the planner of team_id
create_todo_error(ts, m, team_id, current_user_id) ==
    IF team_id \notin ts THEN "planner_not_found"
    ELSE IF get_member(m, team_id, current_user_id) = None THEN "planner_forbidden"
    ELSE "ok"

\* TodoService._process_assignees, lines 84-114: the ids that are users and
\* have a row in the planner's team
process_assignees(m, assigned_user_ids, team_id) ==
    {u \in assigned_user_ids : u \in Users /\ get_member(m, team_id, u) # None}

\* TeamService._remove_user_from_team_todos, lines 273-294, when no statement
\* raises: deletes the user's assignments to the todos of the team's planners
remove_user_from_team_todos(ta, td, team_id, user_id) ==
    {a \in ta : ~(a.user_id = user_id
                  /\ \E t \in td : t.id = a.todo_id /\ t.team_id = team_id)}

\* TeamService._remove_user_from_team_todos, lines 273-300, as the caller sees
\* it: the delete committed, or an exception of the query, the delete or the
\* commit rolled back and only logged (lines 295-300), the table as it was
remove_user_from_team_todos_outcomes(ta, td, team_id, user_id) ==
    {remove_user_from_team_todos(ta, td, team_id, user_id), ta}

(***************************************************************************)
(* State.                                                                  *)
(*   teams    ids of the rows of the teams table                           *)
(*   members  the team_members table                                       *)
(*   invites  the invites table                                            *)
(*   lastOp   the last completed service call: for a call that returned,   *)
(*            its arguments and "ok"; for a call that raised ValueError,   *)
(*            its name and the message                                     *)
(*   xfer     a transfer_ownership request between its statements          *)
(*   crm      one call of can_remove_member: arguments and return value    *)
(*   perm     one evaluation of has_permission and of the rank comparison  *)
(*            of require_role: arguments and values                        *)
(*   todos    the todos table: id and team of the planner                  *)
(*   todo_assignments  the todo_assignments table                          *)
(*   rm       a remove_member or leave_team request between its statements *)
(*   upd      an update_member_role request between its statements         *)
(***************************************************************************)
NoOp == [op |-> "none", team_id |-> 0, current_user_id |-> 0, user_id |-> 0,
         role |-> None, result |-> "ok"]

Call(op, team_id, current_user_id, user_id, role, result) ==
    IF result = "ok"
    THEN [op |-> op, team_id |-> team_id, current_user_id |-> current_user_id,
          user_id |-> user_id, role |-> role, result |-> result]
    ELSE [op |-> op, team_id |-> 0, current_user_id |-> 0,
          user_id |-> 0, role |-> None, result |-> result]

XferIdle == [pc |-> "idle", team_id |-> 0, new_owner_id |-> 0, current_user_id |-> 0]

CrmIdle == [current_user_id |-> 0, target_user_id |-> 0, current_user_role |-> None,
            target_user_role |-> None, called |-> FALSE, result |-> FALSE]

PermIdle == [user_role |-> None, permission |-> None, minimum_role |-> None,
             called |-> FALSE, granted |-> FALSE, below |-> FALSE]

RmIdle == [pc |-> "idle", op |-> "none", team_id |-> 0, user_id |-> 0, current_user_id |-> 0,
           current_role |-> None, target_role |-> None]

UpdIdle == [pc |-> "idle", team_id |-> 0, user_id |-> 0, new_role |-> None,
            current_user_id |-> 0, current_role |-> None, target_role |-> None]

Init ==
    /\ teams = {}
    /\ members = NoRows
    /\ invites = {}
    /\ lastOp = NoOp
    /\ xfer = XferIdle
    /\ crm = CrmIdle
    /\ perm = PermIdle
    /\ todos = {}
    /\ todo_assignments = {}
    /\ rm = RmIdle
    /\ upd = UpdIdle

\* the id the teams table gives its next row
NextTeamId == Cardinality(teams) + 1

\* TeamService.create_team
create_team(current_user_id) ==
    /\ NextTeamId \in TeamIds
    /\ RowCount(members) < MaxRows
    /\ teams' = teams \cup {NextTeamId}
    /\ members' = team_repo_add_member(members, NextTeamId, current_user_id, "owner")
    /\ lastOp' = Call("create_team", NextTeamId, current_user_id, current_user_id, "owner", "ok")
    /\ UNCHANGED <<invites, xfer, crm, perm, todos, todo_assignments, rm, upd>>

\* member_data.get('role', 'editor')
member_data_role(role_in) == IF role_in = Absent THEN "editor" ELSE role_in

\* TeamService.add_member
add_member(team_id, user_id, role_in, current_user_id) ==
    LET err == add_member_error(teams, members, team_id, user_id, current_user_id) IN
    /\ err = "ok" => RowCount(members) < MaxRows
    /\ members' = IF err = "ok"
                  THEN team_repo_add_member(members, team_id, user_id, member_data_role(role_in))
                  ELSE members
    /\ lastOp' = Call("add_member", team_id, current_user_id, user_id, role_in, err)
    /\ UNCHANGED <<teams, invites, xfer, crm, perm, todos, todo_assignments, rm, upd>>

\* TeamService.remove_member
remove_member(team_id, user_id, current_user_id) ==
    LET err == remove_member_error(teams, members, team_id, user_id, current_user_id) IN
    /\ members' = IF err = "ok" THEN team_repo_remove_member(members, team_id, user_id)
                  ELSE members
    /\ todo_assignments' \in IF err = "ok"
                             THEN remove_user_from_team_todos_outcomes(
                                      todo_assignments, todos, team_id, user_id)
                             ELSE {todo_assignments}
    /\ lastOp' = Call("remove_member", team_id, current_user_id, user_id, None, err)
    /\ UNCHANGED <<teams, invites, xfer, crm, perm, todos, rm, upd>>

\* TeamService.update_member_role
update_member_role(team_id, user_id, new_role, current_user_id) ==
    LET err == update_member_role_error(teams, members, team_id, user_id, new_role,
                                        current_user_id) IN
    /\ members' = IF err = "ok"
                  THEN team_repo_update_member_role(members, team_id, user_id, new_role)
                  ELSE members
    /\ lastOp' = Call("update_member_role", team_id, current_user_id, user_id, new_role, err)
    /\ UNCHANGED <<teams, invites, xfer, crm, perm, todos, todo_assignments, rm, upd>>

\* TeamService.leave_team
leave_team(team_id, current_user_id) ==
    LET err == leave_team_error(teams, members, team_id, current_user_id) IN
    /\ members' = IF err = "ok" THEN team_repo_remove_member(members, team_id, current_user_id)
                  ELSE members
    /\ todo_assignments' \in IF err = "ok"
                             THEN remove_user_from_team_todos_outcomes(
                                      todo_assignments, todos, team_id, current_user_id)
                             ELSE {todo_assignments}
    /\ lastOp' = Call("leave_team", team_id, current_user_id, current_user_id, None, err)
    /\ UNCHANGED <<teams, invites, xfer, crm, perm, todos, rm, upd>>

\* TeamService.transfer_ownership, run from its first statement to its return
transfer_ownership(team_id, new_owner_id, current_user_id) ==
    LET err == transfer_ownership_error(teams, members, team_id, new_owner_id,
                                        current_user_id) IN
    /\ members' = IF err = "ok"
                  THEN transfer_ownership_writes(members, team_id, new_owner_id, current_user_id)
                  ELSE members
    /\ lastOp' = Call("transfer_ownership", team_id, current_user_id, new_owner_id, None, err)
    /\ UNCHANGED <<teams, invites, xfer, crm, perm, todos, todo_assignments, rm, upd>>

\* InviteService.create_invite
create_invite(team_id, user_id, current_user_id) ==
    LET err == create_invite_error(teams, members, invites, team_id, user_id,
                                   current_user_id) IN
    /\ invites' = IF err = "ok"
                  THEN invites \cup {[team_id |-> team_id, user_id |-> user_id,
                                       status |-> "pending"]}
                  ELSE invites
    /\ lastOp' = Call("create_invite", team_id, current_user_id, user_id, None, err)
    /\ UNCHANGED <<teams, members, xfer, crm, perm, todos, todo_assignments, rm, upd>>

\* InviteService.accept_invite on the invite of (team_id, user_id)
accept_invite(team_id, user_id, current_user_id) ==
    LET err == accept_invite_error(invites, team_id, user_id, current_user_id) IN
    /\ err = "ok" => RowCount(members) < MaxRows
    /\ members' = IF err = "ok"
                  THEN team_repo_add_member(members, team_id, current_user_id, "editor")
                  ELSE members
    /\ invites' = IF err = "ok" THEN invites \ InviteOf(invites, team_id, user_id)
                  ELSE invites
    /\ lastOp' = Call("accept_invite", team_id, current_user_id, user_id, None, err)
    /\ UNCHANGED <<teams, xfer, crm, perm, todos, todo_assignments, rm, upd>>

\* the id the todos table gives its next row
NextTodoId == Cardinality(todos) + 1

\* TodoService.create_todo, lines 116-160, in the planner of team_id with
\* todo_data['assigned_to'] = assigned_to
create_todo(team_id, assigned_to, current_user_id) ==
    LET err == create_todo_error(teams, members, team_id, current_user_id) IN
    /\ err = "ok" => NextTodoId <= MaxTodos
    /\ todos' = IF err = "ok" THEN todos \cup {[id |-> NextTodoId, team_id |-> team_id]}
                ELSE todos
    /\ todo_assignments' =
            IF err = "ok"
            THEN todo_assignments
                 \cup {[todo_id |-> NextTodoId, user_id |-> u] :
                           u \in process_assignees(members, assigned_to, team_id)}
            ELSE todo_assignments
    /\ lastOp' = Call("create_todo", team_id, current_user_id, 0, None, err)
    /\ UNCHANGED <<teams, members, invites, xfer, crm, perm, rm, upd>>

\* the role arguments of add_member calls worth telling apart: a call that
\* raises does so before it looks at the role
AddRoleInputs(team_id, user_id, current_user_id) ==
    IF add_member_error(teams, members, team_id, user_id, current_user_id) = "ok"
    THEN RoleInputs ELSE {Absent}

(***************************************************************************)
(* Requests served one after the other: every handler runs from its first  *)
(* statement to its return before the next one starts.                     *)
(***************************************************************************)
Next ==
    \/ \E u \in Users : create_team(u)
    \/ \E t \in TeamIds, x \in UserIds, u \in Users :
            \E r \in AddRoleInputs(t, x, u) : add_member(t, x, r, u)
    \/ \E t \in TeamIds, x \in Users, u \in Users : remove_member(t, x, u)
    \/ \E t \in TeamIds, x \in Users, r \in RoleStrings, u \in Users :
            update_member_role(t, x, r, u)
    \/ \E t \in TeamIds, u \in Users : leave_team(t, u)
    \/ \E t \in TeamIds, x \in Users, u \in Users : transfer_ownership(t, x, u)
    \/ \E t \in TeamIds, x \in UserIds, u \in Users : create_invite(t, x, u)
    \/ \E t \in TeamIds, x \in Users, u \in Users : accept_invite(t, x, u)

Spec == Init /\ [][Next]_vars

(***************************************************************************)
(* Properties of the membership store.                                     *)
(***************************************************************************)
\* the rows of team_id whose role is "owner", as (user_id, position) pairs
OwnerRows(m, team_id) ==
    {x \in Users \X (1..(MaxRows + 1)) :
        x[2] <= Len(m[team_id][x[1]]) /\ m[team_id][x[1]][x[2]] = "owner"}

\* C1: in every state reached by completed create_team, add_member,
\* accept_invite, remove_member, update_member_role, leave_team and
\* transfer_ownership calls, no team has more than one membership whose role
\* is owner.
C1_AtMostOneOwner ==
    \A t \in TeamIds : Cardinality(OwnerRows(members, t)) <= 1

\* C2: once create_team has given a team its owner, no sequence of completed
\* leave_team, remove_member, update_member_role and transfer_ownership calls
\* leaves the team with zero owner memberships.
C2_NeverOwnerless ==
    \A t \in teams : OwnerRows(members, t) # {}

\* a former owner has left the team after handing ownership over
C2_Witness ==
    /\ lastOp.op = "leave_team"
    /\ lastOp.result = "ok"
    /\ \E t \in teams, u \in Users :
          /\ get_member(members, t, u) = "owner"
          /\ lastOp.team_id = t
          /\ lastOp.current_user_id # u

\* C3: after any sequence of add_member, create_invite, accept_invite,
\* remove_member and leave_team calls, the membership store holds at most one
\* row for each (team, user) pair.
C3_OneRowPerPair ==
    \A t \in TeamIds, u \in Users : Len(members[t][u]) <= 1

(***************************************************************************)
(* Requests served concurrently.  FastAPI runs the synchronous handlers on *)
(* a thread pool, each with its own session, and every repository write    *)
(* commits on its own (team_repository.py:37, 49, 61).  A transfer of      *)
(* ownership is therefore four steps that other requests can run between:  *)
(* the read of the caller's row, the read of the new owner's row, the      *)
(* committed write of "owner" and the committed write of "editor".         *)
(***************************************************************************)
\* transfer_ownership, lines 304-315
xfer_begin(team_id, new_owner_id, current_user_id) ==
    /\ xfer.pc = "idle"
    /\ IF team_id \notin teams
       THEN /\ lastOp' = Call("transfer_ownership", team_id, current_user_id, new_owner_id,
                              None, "team_not_found")
            /\ xfer' = xfer
       ELSE IF get_member(members, team_id, current_user_id) # "owner"
       THEN /\ lastOp' = Call("transfer_ownership", team_id, current_user_id, new_owner_id,
                              None, "not_owner")
            /\ xfer' = xfer
       ELSE /\ lastOp' = lastOp
            /\ xfer' = [pc |-> "read_new_owner", team_id |-> team_id,
                        new_owner_id |-> new_owner_id, current_user_id |-> current_user_id]
    /\ UNCHANGED <<teams, members, invites, crm, perm, todos, todo_assignments, rm, upd>>

\* transfer_ownership, lines 317-324
xfer_read_new_owner ==
    /\ xfer.pc = "read_new_owner"
    /\ IF get_member(members, xfer.team_id, xfer.new_owner_id) = None
       THEN /\ lastOp' = Call("transfer_ownership", xfer.team_id, xfer.current_user_id,
                              xfer.new_owner_id, None, "new_owner_not_found")
            /\ xfer' = XferIdle
       ELSE IF xfer.current_user_id = xfer.new_owner_id
       THEN /\ lastOp' = Call("transfer_ownership", xfer.team_id, xfer.current_user_id,
                              xfer.new_owner_id, None, "self_transfer")
            /\ xfer' = XferIdle
       ELSE /\ lastOp' = lastOp
            /\ xfer' = [xfer EXCEPT !.pc = "write_owner"]
    /\ UNCHANGED <<teams, members, invites, crm, perm, todos, todo_assignments, rm, upd>>

\* transfer_ownership, line 327
xfer_write_owner ==
    /\ xfer.pc = "write_owner"
    /\ members' = team_repo_update_member_role(members, xfer.team_id, xfer.new_owner_id, "owner")
    /\ xfer' = [xfer EXCEPT !.pc = "write_editor"]
    /\ UNCHANGED <<teams, invites, lastOp, crm, perm, todos, todo_assignments, rm, upd>>

\* transfer_ownership, lines 328-330
xfer_write_editor ==
    /\ xfer.pc = "write_editor"
    /\ members' = team_repo_update_member_role(members, xfer.team_id, xfer.current_user_id,
                                               "editor")
    /\ lastOp' = Call("transfer_ownership", xfer.team_id, xfer.current_user_id,
                      xfer.new_owner_id, None, "ok")
    /\ xfer' = XferIdle
    /\ UNCHANGED <<teams, invites, crm, perm, todos, todo_assignments, rm, upd>>

\* a team whose creator, user 1, is its only owner and whose other users were
\* added with any other role string or not at all
ConcStores ==
    {m \in [TeamIds -> [Users -> {<<>>} \cup {<<r>> : r \in RoleStrings}]] :
        \A t \in TeamIds : \A u \in Users : (m[t][u] = <<"owner">>) <=> (u = 1)}

ConcInit ==
    /\ teams = TeamIds
    /\ members \in ConcStores
    /\ invites = {}
    /\ lastOp = NoOp
    /\ xfer = XferIdle
    /\ crm = CrmIdle
    /\ perm = PermIdle
    /\ todos = {}
    /\ todo_assignments = {}
    /\ rm = RmIdle
    /\ upd = UpdIdle

ConcNext ==
    \/ \E t \in TeamIds, x \in Users, u \in Users : xfer_begin(t, x, u)
    \/ xfer_read_new_owner
    \/ xfer_write_owner
    \/ xfer_write_editor
    \/ \E t \in TeamIds, x \in Users, u \in Users : remove_member(t, x, u)
    \/ \E t \in TeamIds, x \in Users, r \in RoleStrings, u \in Users :
            update_member_role(t, x, r, u)
    \/ \E t \in TeamIds, u \in Users : leave_team(t, u)

SpecConc == ConcInit /\ [][ConcNext]_vars

\* C4: transfer_ownership applies its two role writes atomically: no state of
\* the membership store, which is what any other request reads, has the
\* target's row already rewritten to owner by a transfer whose demotion of the
\* caller is still outstanding.
C4_TransferAtomic ==
    ~(/\ xfer.pc = "write_editor"
      /\ get_member(members, xfer.team_id, xfer.new_owner_id) = "owner"
      /\ get_member(members, xfer.team_id, xfer.current_user_id) = "owner")

(***************************************************************************)
(* Properties of transfer_ownership and update_member_role, served one     *)
(* request after the other.                                                *)
(***************************************************************************)
\* the rows of the users other than a and b are the same in m1 and m2
SameExcept(m1, m2, team_id, a, b) ==
    \A t \in TeamIds, u \in Users :
        (t # team_id \/ u \notin {a, b}) => m1[t][u] = m2[t][u]

\* C5: whenever transfer_ownership(team, target) by actor returns success,
\* resolving the roles immediately afterwards gives owner for the target and
\* editor for the actor, and every other membership of the team is unchanged.
C5_TransferResult ==
    /\ [](lastOp.op = "transfer_ownership" /\ lastOp.result = "ok" =>
            /\ get_user_role_in_team(members, lastOp.user_id, lastOp.team_id) = "owner"
            /\ get_user_role_in_team(members, lastOp.current_user_id, lastOp.team_id)
                  = "editor")
    /\ [][lastOp'.op = "transfer_ownership" /\ lastOp'.result = "ok" =>
            /\ SameExcept(members, members', lastOp'.team_id, lastOp'.user_id,
                          lastOp'.current_user_id)
            /\ Tail(members'[lastOp'.team_id][lastOp'.user_id])
                  = Tail(members[lastOp'.team_id][lastOp'.user_id])
            /\ Tail(members'[lastOp'.team_id][lastOp'.current_user_id])
                  = Tail(members[lastOp'.team_id][lastOp'.current_user_id])]_vars

\* an owner has handed the team to a member while a third member looks on
C5_Witness ==
    /\ lastOp.op = "transfer_ownership"
    /\ lastOp.result = "ok"
    /\ \E u \in Users \ {lastOp.user_id, lastOp.current_user_id} :
          get_member(members, lastOp.team_id, u) # None

\* C6: transfer_ownership succeeds if and only if the actor's stored role is
\* owner, the target is already a member of the team, and the target is not
\* the actor; in every other case it raises a validation error and no
\* membership is changed.
C6_TransferGuard ==
    /\ [](\A t \in TeamIds, x \in Users, u \in Users :
            (transfer_ownership_error(teams, members, t, x, u) = "ok") <=>
                (/\ get_user_role_in_team(members, u, t) = "owner"
                 /\ get_user_role_in_team(members, x, t) # None
                 /\ x # u))
    /\ [][lastOp'.op = "transfer_ownership" =>
            IF lastOp'.result = "ok"
            THEN /\ get_user_role_in_team(members, lastOp'.current_user_id, lastOp'.team_id)
                      = "owner"
                 /\ get_user_role_in_team(members, lastOp'.user_id, lastOp'.team_id) # None
                 /\ lastOp'.user_id # lastOp'.current_user_id
            ELSE members' = members]_vars

\* a member who is not the owner tried to transfer the ownership
C6_Witness ==
    /\ lastOp.op = "transfer_ownership"
    /\ lastOp.result = "not_owner"
    /\ \E t \in teams, u \in Users : get_member(members, t, u) \notin {None, "owner"}

\* C7: for every actor role and every requested new role, update_member_role
\* rejects and leaves the target's role unchanged whenever
\* priority(newRole) >= priority(actor's role); a successful call only ever
\* stores a role strictly below the actor's rank.
C7_NoEscalation ==
    /\ [](\A t \in TeamIds, x \in Users, r \in RoleStrings, u \in Users :
            ROLE_PRIORITY_get(r) >= ROLE_PRIORITY_get(get_member(members, t, u)) =>
                update_member_role_error(teams, members, t, x, r, u) # "ok")
    /\ [][lastOp'.op = "update_member_role" =>
            IF lastOp'.result = "ok"
            THEN /\ get_member(members', lastOp'.team_id, lastOp'.user_id) = lastOp'.role
                 /\ ROLE_PRIORITY_get(lastOp'.role)
                      < ROLE_PRIORITY_get(get_member(members, lastOp'.team_id,
                                                     lastOp'.current_user_id))
            ELSE members' = members]_vars

\* a call was refused by the rank check alone
C7_Witness ==
    /\ lastOp.op = "update_member_role"
    /\ lastOp.result = "rank_too_high"

\* C8: update_member_role always rejects when the target's current role is
\* owner, whatever the actor's role and the requested role, so a membership's
\* role never changes away from owner except through transfer_ownership.
C8_OwnerTargetRejected ==
    /\ [](\A t \in TeamIds, x \in Users, r \in RoleStrings, u \in Users :
            get_member(members, t, x) = "owner" =>
                update_member_role_error(teams, members, t, x, r, u) # "ok")
    /\ [][lastOp'.op = "update_member_role" /\ lastOp'.result # "ok" =>
            members' = members]_vars
    /\ [][members' # members => \A t \in TeamIds, u \in Users :
            Len(members'[t][u]) = Len(members[t][u]) =>
                \A i \in 1..Len(members[t][u]) :
                    (members[t][u][i] = "owner" /\ members'[t][u][i] # "owner") =>
                        (lastOp'.op = "transfer_ownership" /\ lastOp'.result = "ok")]_vars

\* a call was refused because its target is the owner
C8_Witness ==
    /\ lastOp.op = "update_member_role"
    /\ lastOp.result = "target_is_owner"

\* C9: update_member_role always rejects when the target user is the acting
\* user, for every actor role and requested role, so no member can change
\* their own role through this operation.
C9_SelfTargetRejected ==
    /\ [](\A t \in TeamIds, r \in RoleStrings, u \in Users :
            update_member_role_error(teams, members, t, u, r, u) # "ok")
    /\ [][lastOp'.op = "update_member_role" =>
            IF lastOp'.result = "ok"
            THEN /\ lastOp'.user_id # lastOp'.current_user_id
                 /\ members'[lastOp'.team_id][lastOp'.current_user_id]
                      = members[lastOp'.team_id][lastOp'.current_user_id]
            ELSE members' = members]_vars

\* a member's call on their own membership was refused as a self-change
C9_Witness ==
    /\ lastOp.op = "update_member_role"
    /\ lastOp.result = "self_change"

(***************************************************************************)
(* can_remove_member on its own: every call with two user ids and two      *)
(* Role members.                                                           *)
(***************************************************************************)
CanRemoveInit ==
    /\ teams = {}
    /\ members = NoRows
    /\ invites = {}
    /\ lastOp = NoOp
    /\ xfer = XferIdle
    /\ crm \in [current_user_id : Users, target_user_id : Users,
                current_user_role : Role, target_user_role : Role,
                called : {FALSE}, result : {FALSE}]
    /\ perm = PermIdle
    /\ todos = {}
    /\ todo_assignments = {}
    /\ rm = RmIdle
    /\ upd = UpdIdle

can_remove_member_call ==
    /\ ~crm.called
    /\ crm' = [crm EXCEPT !.called = TRUE,
                          !.result = can_remove_member(crm.current_user_id, crm.target_user_id,
                                                       crm.current_user_role,
                                                       crm.target_user_role)]
    /\ UNCHANGED <<teams, members, invites, lastOp, xfer, perm, todos, todo_assignments,
                   rm, upd>>

CanRemoveNext == can_remove_member_call

SpecCanRemove == CanRemoveInit /\ [][CanRemoveNext]_vars

\* the removal table: who may remove whom
RemovalTable(actor_role, target_role) ==
    \/ actor_role = "owner"
    \/ actor_role = "admin" /\ target_role \in {"manager", "editor", "viewer", "guest"}
    \/ actor_role = "manager" /\ target_role \in {"editor", "viewer", "guest"}

\* C10: can_remove_member(actorId, targetId, actorRole, targetRole) is total
\* over all ids and all 6x6 role pairs and equals the table: false if
\* actorId = targetId; otherwise true if actorRole is owner; otherwise true
\* iff actorRole is admin and the target ranks at most manager, or actorRole
\* is manager and the target ranks at most editor; false for the actor roles
\* editor, viewer and guest.
C10_CanRemoveTable ==
    crm.called =>
        /\ crm.result \in BOOLEAN
        /\ crm.result = (/\ crm.current_user_id # crm.target_user_id
                         /\ RemovalTable(crm.current_user_role, crm.target_user_role))

\* an admin asked about a manager, the highest rank an admin may remove
C10_Witness ==
    /\ crm.called
    /\ crm.current_user_role = "admin"
    /\ crm.target_user_role = "manager"
    /\ crm.current_user_id # crm.target_user_id
    /\ crm.result = TRUE

(***************************************************************************)
(* Todos and removals: members create todos with assignees in the team's   *)
(* planner while members are removed and leave.                            *)
(***************************************************************************)
TodoInit ==
    /\ teams = TeamIds
    /\ members \in ConcStores
    /\ invites = {}
    /\ lastOp = NoOp
    /\ xfer = XferIdle
    /\ crm = CrmIdle
    /\ perm = PermIdle
    /\ todos = {}
    /\ todo_assignments = {}
    /\ rm = RmIdle
    /\ upd = UpdIdle

TodoNext ==
    \/ \E t \in TeamIds, a \in SUBSET Users, u \in Users : create_todo(t, a, u)
    \/ \E t \in TeamIds, x \in Users, u \in Users : remove_member(t, x, u)
    \/ \E t \in TeamIds, u \in Users : leave_team(t, u)

SpecTodo == TodoInit /\ [][TodoNext]_vars

\* C11: remove_member deletes the target's membership only when the actor and
\* the target are both members of the team and can_remove_member is true for
\* their stored roles; in every other case it raises a validation error and
\* changes neither the membership store nor the todo assignments.
C11_RemoveMemberChecked ==
    /\ [](\A t \in TeamIds, x \in Users, u \in Users :
            remove_member_error(teams, members, t, x, u) = "ok"
                => /\ get_member(members, t, u) \in Role
                   /\ get_member(members, t, x) \in Role
                   /\ can_remove_member(u, x, get_member(members, t, u),
                                        get_member(members, t, x)))
    /\ [][lastOp'.op = "remove_member" =>
            IF lastOp'.result = "ok"
            THEN /\ remove_member_error(teams, members, lastOp'.team_id, lastOp'.user_id,
                                        lastOp'.current_user_id) = "ok"
                 /\ members' = [members EXCEPT ![lastOp'.team_id][lastOp'.user_id] = Tail(@)]
            ELSE /\ members' = members
                 /\ todo_assignments' = todo_assignments
                 /\ todos' = todos]_vars

\* a removal was refused for lack of rank while the team's todos had assignees
C11_Witness ==
    /\ lastOp.op = "remove_member"
    /\ lastOp.result = "remove_forbidden"
    /\ todo_assignments # {}

\* C12: add_member is authorised exactly for the actors whose role holds
\* team_invite in the permission matrix, and the roles that hold it are
\* exactly owner and admin.
C12_AddAuthorisedIffInvite ==
    \A t \in TeamIds, x \in Users, u \in Users :
        (t \in teams /\ get_member(members, t, u) \in Role)
            => /\ (add_member_error(teams, members, t, x, u) # "add_forbidden")
                      <=> has_permission(get_member(members, t, u), "team_invite")
               /\ has_permission(get_member(members, t, u), "team_invite")
                      <=> get_member(members, t, u) \in {"owner", "admin"}

\* what a completed add_member call has done to the store
AddMemberStep ==
    lastOp'.op = "add_member" =>
        IF lastOp'.result = "ok"
        THEN /\ get_member(members, lastOp'.team_id, lastOp'.user_id) = None
             /\ members' = [members EXCEPT ![lastOp'.team_id][lastOp'.user_id] =
                                <<IF lastOp'.role = Absent THEN "editor" ELSE lastOp'.role>>]
        ELSE members' = members

\* the actor's stored role is one add_member accepts
AddAuthorised(t, u) == t \in teams /\ get_member(members, t, u) \in {"owner", "admin"}

\* C13 as stated: add_member by an authorised actor fails with a validation
\* error and leaves the store unchanged when the target is already a member;
\* otherwise it creates exactly one new membership for the target whose role
\* is the caller-supplied role, or editor when none is supplied.
C13_AddMemberOutcome_AsStated ==
    /\ [](\A t \in TeamIds, x \in UserIds, u \in Users :
            AddAuthorised(t, u)
                => IF get_member(members, t, x) # None
                   THEN add_member_error(teams, members, t, x, u) = "already_member"
                   ELSE add_member_error(teams, members, t, x, u) = "ok")
    /\ [][AddMemberStep]_vars

\* C13, amended: add_member by an authorised actor fails with a validation
\* error and leaves the store unchanged when the target is already a member
\* or is not a registered user; otherwise it creates exactly one new
\* membership for the target whose role is the caller-supplied role, or
\* editor when none is supplied.
C13_AddMemberOutcome ==
    /\ [](\A t \in TeamIds, x \in UserIds, u \in Users :
            AddAuthorised(t, u)
                => IF get_member(members, t, x) # None
                   THEN add_member_error(teams, members, t, x, u) = "already_member"
                   ELSE IF x \notin Users
                   THEN add_member_error(teams, members, t, x, u) = "user_not_found"
                   ELSE add_member_error(teams, members, t, x, u) = "ok")
    /\ [][AddMemberStep]_vars

\* a member was added without a role in the request and stored as editor
C13_Witness ==
    /\ lastOp.op = "add_member"
    /\ lastOp.result = "ok"
    /\ lastOp.role = Absent
    /\ members[lastOp.team_id][lastOp.user_id] = <<"editor">>

\* C14: leave_team by a non-owner member deletes exactly that user's
\* membership in that team and changes no other membership; leave_team by an
\* owner or by a non-member is rejected with the store unchanged.
C14_LeaveTeam ==
    /\ [](\A t \in TeamIds, u \in Users :
            (leave_team_error(teams, members, t, u) = "ok")
                <=> (t \in teams /\ get_member(members, t, u) \notin {None, "owner"}))
    /\ [][lastOp'.op = "leave_team" =>
            IF lastOp'.result = "ok"
            THEN /\ get_member(members', lastOp'.team_id, lastOp'.current_user_id) = None
                 /\ \A t \in TeamIds, u \in Users :
                        <<t, u>> # <<lastOp'.team_id, lastOp'.current_user_id>>
                            => members'[t][u] = members[t][u]
            ELSE members' = members]_vars

(***************************************************************************)
(* has_permission and the rank comparison of require_role, applied to      *)
(* every role (or None), permission and minimum role.                      *)
(***************************************************************************)
PermInit ==
    /\ teams = {}
    /\ members = NoRows
    /\ invites = {}
    /\ lastOp = NoOp
    /\ xfer = XferIdle
    /\ crm = CrmIdle
    /\ perm \in [user_role : Role \cup {None}, permission : Permission,
                 minimum_role : Role, called : {FALSE}, granted : {FALSE},
                 below : {FALSE}]
    /\ todos = {}
    /\ todo_assignments = {}
    /\ rm = RmIdle
    /\ upd = UpdIdle

\* has_permission(user_role, permission), and for a role the comparison
\* ROLE_PRIORITY.get(user_role, 0) < ROLE_PRIORITY.get(minimum_role, 0) of
\* require_role
has_permission_call ==
    /\ ~perm.called
    /\ perm' = [perm EXCEPT
                  !.called = TRUE,
                  !.granted = has_permission(perm.user_role, perm.permission),
                  !.below = ROLE_PRIORITY_get(perm.user_role)
                                < ROLE_PRIORITY_get(perm.minimum_role)]
    /\ UNCHANGED <<teams, members, invites, lastOp, xfer, crm, todos, todo_assignments,
                   rm, upd>>

PermNext == has_permission_call

SpecPerm == PermInit /\ [][PermNext]_vars

\* C15: has_permission(r, p) is true exactly when p is in the authored
\* permission list of r; has_permission(None, p) is false for every p;
\* has_permission(admin, team_create) is false and
\* has_permission(owner, team_create) is true.
C15_HasPermission ==
    perm.called =>
        /\ perm.user_role \in Role
              => (perm.granted <=> perm.permission \in ROLE_PERMISSIONS[perm.user_role])
        /\ perm.user_role = None => ~perm.granted
        /\ (perm.user_role = "admin" /\ perm.permission = "team_create") => ~perm.granted
        /\ (perm.user_role = "owner" /\ perm.permission = "team_create") => perm.granted

\* an admin was asked for team_create and refused
C15_Witness ==
    /\ perm.called
    /\ perm.user_role = "admin"
    /\ perm.permission = "team_create"
    /\ ~perm.granted

\* the permissions of r1 are a strict superset of the permissions of r2
StrictSuperset(r1, r2) ==
    /\ ROLE_PERMISSIONS[r2] \subseteq ROLE_PERMISSIONS[r1]
    /\ ROLE_PERMISSIONS[r1] # ROLE_PERMISSIONS[r2]

\* C16: the permission matrix is not monotone in priority: there are roles r1
\* and r2 with priority(r1) > priority(r2) such that the permissions of r1 are
\* not a strict superset of the permissions of r2.
C16_NotMonotone ==
    perm.called =>
        \E r1 \in Role, r2 \in Role :
            /\ ROLE_PRIORITY[r1] > ROLE_PRIORITY[r2]
            /\ ~StrictSuperset(r1, r2)

\* viewer outranks guest and was granted what guest is granted, no more
C16_Witness ==
    /\ perm.called
    /\ perm.user_role = "viewer"
    /\ perm.minimum_role = "guest"
    /\ ~perm.below
    /\ perm.granted = has_permission("guest", perm.permission)
    /\ ~StrictSuperset("viewer", "guest")

\* C17: priority is injective on roles with owner > admin > manager > editor
\* > viewer > guest, and the priority table hard-coded in update_member_role
\* assigns every role the same rank as ROLE_PRIORITY.
C17_PriorityTables ==
    /\ \A a \in Role, b \in Role : a # b => ROLE_PRIORITY[a] # ROLE_PRIORITY[b]
    /\ ROLE_PRIORITY["owner"] > ROLE_PRIORITY["admin"]
    /\ ROLE_PRIORITY["admin"] > ROLE_PRIORITY["manager"]
    /\ ROLE_PRIORITY["manager"] > ROLE_PRIORITY["editor"]
    /\ ROLE_PRIORITY["editor"] > ROLE_PRIORITY["viewer"]
    /\ ROLE_PRIORITY["viewer"] > ROLE_PRIORITY["guest"]
    /\ DOMAIN role_priorities = Role
    /\ \A r \in Role : role_priorities[r] = ROLE_PRIORITY[r]
    /\ (perm.called /\ perm.user_role \in Role)
          => (perm.below <=> role_priorities_get(perm.user_role)
                                < role_priorities_get(perm.minimum_role))

\* a manager was compared with editor and found not below it
C17_Witness ==
    /\ perm.called
    /\ perm.user_role = "manager"
    /\ perm.minimum_role = "editor"
    /\ ~perm.below

(***************************************************************************)
(* Guard calls: the dependencies built by require_permission and           *)
(* require_role, called by any user on a team with members.  lastOp holds  *)
(* the call's arguments and its outcome.                                   *)
(***************************************************************************)
GuardCall(op, team_id, current_user_id, arg, outcome) ==
    [op |-> op, team_id |-> team_id, current_user_id |-> current_user_id,
     arg |-> arg, outcome |-> outcome]

GuardInit ==
    /\ teams = TeamIds
    /\ members \in ConcStores
    /\ invites = {}
    /\ lastOp = NoOp
    /\ xfer = XferIdle
    /\ crm = CrmIdle
    /\ perm = PermIdle
    /\ todos = {}
    /\ todo_assignments = {}
    /\ rm = RmIdle
    /\ upd = UpdIdle

\* require_permission(permission)(team_id, current_user, db)
require_permission(permission, team_id, current_user_id) ==
    /\ lastOp' = GuardCall("require_permission", team_id, current_user_id, permission,
                           permission_dependency(permission, members, team_id,
                                                 current_user_id))
    /\ UNCHANGED <<teams, members, invites, xfer, crm, perm, todos, todo_assignments, rm, upd>>

\* require_role(minimum_role)(team_id, current_user, db)
require_role(minimum_role, team_id, current_user_id) ==
    /\ lastOp' = GuardCall("require_role", team_id, current_user_id, minimum_role,
                           role_dependency(minimum_role, members, team_id, current_user_id))
    /\ UNCHANGED <<teams, members, invites, xfer, crm, perm, todos, todo_assignments, rm, upd>>

GuardNext ==
    \/ \E p \in Permission, t \in TeamIds, u \in Users : require_permission(p, t, u)
    \/ \E r \in Role, t \in TeamIds, u \in Users : require_role(r, t, u)

SpecGuard == GuardInit /\ [][GuardNext]_vars

\* C18: the guard built by require_permission(p) returns the actor's resolved
\* role exactly when has_permission(actor's stored role, p) is true, and
\* otherwise raises an authorization error naming p; it never changes the
\* membership store.
C18_RequirePermission ==
    [][lastOp'.op = "require_permission" =>
          /\ IF has_permission(get_member(members, lastOp'.team_id, lastOp'.current_user_id),
                               lastOp'.arg)
             THEN /\ lastOp'.outcome.kind = "return"
                  /\ lastOp'.outcome.user_role
                        = get_member(members, lastOp'.team_id, lastOp'.current_user_id)
             ELSE /\ lastOp'.outcome.kind = "HTTPException"
                  /\ lastOp'.outcome.status_code = 403
                  /\ lastOp'.outcome.detail = <<"required_permission", lastOp'.arg>>
          /\ members' = members]_vars

\* C19: the guard built by require_role(m) returns the actor's role exactly
\* when the actor has a membership and priority(actor role) >= priority(m),
\* and otherwise raises an authorization error naming m; it never changes the
\* membership store.
C19_RequireRole ==
    [][lastOp'.op = "require_role" =>
          /\ IF /\ get_member(members, lastOp'.team_id, lastOp'.current_user_id) # None
                /\ ROLE_PRIORITY_get(get_member(members, lastOp'.team_id,
                                                lastOp'.current_user_id))
                      >= ROLE_PRIORITY_get(lastOp'.arg)
             THEN /\ lastOp'.outcome.kind = "return"
                  /\ lastOp'.outcome.user_role
                        = get_member(members, lastOp'.team_id, lastOp'.current_user_id)
             ELSE /\ lastOp'.outcome.kind = "HTTPException"
                  /\ lastOp'.outcome.status_code = 403
                  /\ lastOp'.outcome.detail = <<"minimum_role", lastOp'.arg>>
          /\ members' = members]_vars

\* C20: when a guard denies an actor, the outcome for an actor with no
\* membership in the team can be told apart from the outcome for a member
\* whose role is below the required rank or lacks the required permission.
C20_DenialsDistinguishable ==
    \A t \in TeamIds, u1 \in Users, u2 \in Users :
        (get_member(members, t, u1) = None /\ get_member(members, t, u2) \in Role)
            => /\ \A r \in Role :
                    ROLE_PRIORITY[get_member(members, t, u2)] < ROLE_PRIORITY[r]
                        => role_dependency(r, members, t, u1)
                              # role_dependency(r, members, t, u2)
               /\ \A p \in Permission :
                    ~has_permission(get_member(members, t, u2), p)
                        => permission_dependency(p, members, t, u1)
                              # permission_dependency(p, members, t, u2)

\* C21: get_user_role_in_team called immediately after a completed lifecycle
\* mutation returns the mutated value: the supplied role after add_member, the
\* new role after update_member_role, owner and editor after
\* transfer_ownership, and None after remove_member or leave_team.
C21_RoundTrip ==
    [][lastOp'.result = "ok" =>
          CASE lastOp'.op = "add_member" ->
                  get_user_role_in_team(members', lastOp'.user_id, lastOp'.team_id)
                      = (IF lastOp'.role = Absent THEN "editor" ELSE lastOp'.role)
            [] lastOp'.op = "update_member_role" ->
                  get_user_role_in_team(members', lastOp'.user_id, lastOp'.team_id)
                      = lastOp'.role
            [] lastOp'.op = "transfer_ownership" ->
                  /\ get_user_role_in_team(members', lastOp'.user_id, lastOp'.team_id)
                        = "owner"
                  /\ get_user_role_in_team(members', lastOp'.current_user_id,
                                           lastOp'.team_id) = "editor"
            [] lastOp'.op \in {"remove_member", "leave_team"} ->
                  get_user_role_in_team(members', lastOp'.user_id, lastOp'.team_id) = None
            [] OTHER -> TRUE]_vars

\* the store of a team whose only rows are one of user a with role ra and, if
\* rb is a role, one of user b with role rb
ScenarioStore(a, ra, b, rb) ==
    [t \in TeamIds |->
        [u \in Users |-> IF u = a THEN <<ra>>
                         ELSE IF u = b /\ rb # None THEN <<rb>>
                         ELSE <<>>]]

\* C22: the scenario runs with exactly these outcomes: A creates a team and is
\* owner; A adds B as editor; A's update_member_role(B, admin) succeeds and B
\* is admin; B's update_member_role(A, editor) is rejected; B's
\* remove_member(A) is rejected; A's transfer_ownership to B succeeds leaving
\* A editor and B owner; A's remove_member(B) is then rejected.
C22_Scenario ==
    /\ [](\A a \in Users : \A b \in Users \ {a}, t \in teams :
            /\ members = ScenarioStore(a, "owner", b, None)
                  => add_member_error(teams, members, t, b, a) = "ok"
            /\ members = ScenarioStore(a, "owner", b, "editor")
                  => update_member_role_error(teams, members, t, b, "admin", a) = "ok"
            /\ members = ScenarioStore(a, "owner", b, "admin")
                  => /\ update_member_role_error(teams, members, t, a, "editor", b) # "ok"
                     /\ remove_member_error(teams, members, t, a, b) # "ok"
                     /\ transfer_ownership_error(teams, members, t, b, a) = "ok"
            /\ members = ScenarioStore(a, "editor", b, "owner")
                  => remove_member_error(teams, members, t, b, a) # "ok")
    /\ [][lastOp'.result = "ok" =>
            LET a == lastOp'.current_user_id
                b == lastOp'.user_id IN
            /\ (lastOp'.op = "create_team" /\ members = NoRows)
                  => members' = ScenarioStore(a, "owner", a, None)
            /\ (lastOp'.op = "add_member" /\ lastOp'.role = "editor"
                  /\ members = ScenarioStore(a, "owner", b, None))
                  => members' = ScenarioStore(a, "owner", b, "editor")
            /\ (lastOp'.op = "update_member_role" /\ lastOp'.role = "admin"
                  /\ members = ScenarioStore(a, "owner", b, "editor"))
                  => members' = ScenarioStore(a, "owner", b, "admin")
            /\ (lastOp'.op = "transfer_ownership"
                  /\ members = ScenarioStore(a, "owner", b, "admin"))
                  => members' = ScenarioStore(a, "editor", b, "owner")]_vars
    /\ [][(lastOp'.op \in {"update_member_role", "remove_member"} /\ lastOp'.result # "ok")
            => members' = members]_vars

\* after the transfer, with A editor and B owner, a removal was refused
C22_Witness ==
    /\ \E a \in Users : \E b \in Users \ {a} :
          members = ScenarioStore(a, "editor", b, "owner")
    /\ lastOp.op = "remove_member"
    /\ lastOp.result = "remove_forbidden"

\* C25: when one update_member_role call violates several rules at once, the
\* rejection reported is that of the first failing check in the fixed order
\* self-target, then target-is-owner, then rank; an owner targeting themself
\* gets the self-change error and never the owner-target or rank error.
C25_RejectionOrder ==
    /\ [](\A t \in teams, x \in Users, r \in RoleStrings, u \in Users :
            (get_member(members, t, u) # None /\ get_member(members, t, x) # None)
                => update_member_role_error(teams, members, t, x, r, u)
                      = IF x = u THEN "self_change"
                        ELSE IF get_member(members, t, x) = "owner" THEN "target_is_owner"
                        ELSE IF ROLE_PRIORITY_get(r)
                                  >= ROLE_PRIORITY_get(get_member(members, t, u))
                        THEN "rank_too_high"
                        ELSE "ok")
    /\ [][(lastOp'.op = "update_member_role" /\ lastOp'.result # "ok")
            => members' = members]_vars

\* the only member of the team, its owner, asked for a change of their own
\* role and got the self-change error
C25_Witness ==
    /\ lastOp.op = "update_member_role"
    /\ lastOp.result = "self_change"
    /\ \E a \in Users : members = ScenarioStore(a, "owner", a, None)

\* C27: after any sequence of add_member and update_member_role calls with
\* arbitrary role strings, every stored membership role is one of owner,
\* admin, manager, editor, viewer, guest, so get_user_role_in_team resolves
\* every existing membership to a Role instead of failing.
C27_StoredRolesValid ==
    \A t \in TeamIds, u \in Users :
        /\ \A i \in 1..Len(members[t][u]) : members[t][u][i] \in Role
        /\ get_user_role_in_team(members, u, t) # RoleError

\* C28: update_member_role changes a target's role only when the actor's rank
\* is strictly greater than the target's current rank: no member can change
\* the role of a member who currently holds an equal or higher rank.
C28_OnlyOutrankedTargets ==
    [][(lastOp'.op = "update_member_role" /\ lastOp'.result = "ok") =>
          ROLE_PRIORITY_get(get_member(members, lastOp'.team_id, lastOp'.current_user_id))
              > ROLE_PRIORITY_get(get_member(members, lastOp'.team_id, lastOp'.user_id))]_vars

\* C29: add_member never creates a membership whose role has rank greater than
\* or equal to the acting user's rank; an admin cannot add a new member as
\* admin or owner, and an owner cannot add a second owner.
C29_AddBelowActor ==
    [][(lastOp'.op = "add_member" /\ lastOp'.result = "ok") =>
          ROLE_PRIORITY_get(get_member(members', lastOp'.team_id, lastOp'.user_id))
              < ROLE_PRIORITY_get(get_member(members, lastOp'.team_id,
                                             lastOp'.current_user_id))]_vars

\* the lifecycle operations of the team service
LifecycleOps ==
    {"create_team", "add_member", "remove_member", "update_member_role", "leave_team",
     "transfer_ownership"}

\* C24: membership rows are created, changed or deleted only by the lifecycle
\* operations of the team service (team creation, add_member, remove_member,
\* update_member_role, leave_team, transfer_ownership); no other feature
\* writes the membership store.
C24_OnlyLifecycleWrites ==
    [][members' # members => (lastOp'.op \in LifecycleOps /\ lastOp'.result = "ok")]_vars

\* C26: after any sequence of todo assignments, leave_team and remove_member
\* calls, including runs in which the assignment clean-up step fails, no user
\* who is no longer a member of a team remains an assignee of a todo in one of
\* that team's planners.
C26_NoStaleAssignee ==
    \A a \in todo_assignments : \A t \in todos :
        t.id = a.todo_id => get_member(members, t.team_id, a.user_id) # None

(***************************************************************************)
(* remove_member, leave_team and update_member_role served concurrently,   *)
(* at the granularity of their membership reads and committed writes.  A   *)
(* request keeps the roles it has read in its own ORM objects (rm, upd);   *)
(* nothing locks the rows between a read and the write that follows it.    *)
(* A completed request leaves in lastOp its arguments, the target role its *)
(* check saw (checked_role) and the role of the row its write found        *)
(* (found_role, None when the row was gone).                               *)
(***************************************************************************)
RaceCall(op, team_id, current_user_id, user_id, role, checked_role, found_role) ==
    [op |-> op, team_id |-> team_id, current_user_id |-> current_user_id,
     user_id |-> user_id, role |-> role, result |-> "ok",
     checked_role |-> checked_role, found_role |-> found_role]

\* remove_member, lines 154-166: the reads of the team and of the actor's row
rm_begin(team_id, user_id, current_user_id) ==
    /\ rm.pc = "idle"
    /\ IF team_id \notin teams
       THEN /\ lastOp' = Call("remove_member", team_id, current_user_id, user_id, None,
                              "team_not_found")
            /\ rm' = rm
       ELSE IF get_member(members, team_id, current_user_id) = None
       THEN /\ lastOp' = Call("remove_member", team_id, current_user_id, user_id, None,
                              "no_permission")
            /\ rm' = rm
       ELSE /\ lastOp' = lastOp
            /\ rm' = [pc |-> "read_target", op |-> "remove_member", team_id |-> team_id,
                      user_id |-> user_id, current_user_id |-> current_user_id,
                      current_role |-> get_member(members, team_id, current_user_id),
                      target_role |-> None]
    /\ UNCHANGED <<teams, members, invites, xfer, crm, perm, todos, todo_assignments, upd>>

\* the check of remove_member, lines 169-179, on the actor role read before
\* and the target role read now
rm_check(current_user_id, user_id, current_role, target_role) ==
    IF target_role = None THEN "target_not_found"
    ELSE IF current_role \notin Role THEN "invalid_role"
    ELSE IF target_role \notin Role THEN "invalid_role"
    ELSE IF ~can_remove_member(current_user_id, user_id, current_role, target_role)
    THEN "remove_forbidden"
    ELSE "ok"

\* remove_member, lines 168-179: the read of the target's row and the check
rm_read_target ==
    /\ rm.pc = "read_target"
    /\ LET target_role == get_member(members, rm.team_id, rm.user_id)
           err == rm_check(rm.current_user_id, rm.user_id, rm.current_role, target_role) IN
       IF err # "ok"
       THEN /\ lastOp' = Call("remove_member", rm.team_id, rm.current_user_id, rm.user_id,
                              None, err)
            /\ rm' = RmIdle
       ELSE /\ lastOp' = lastOp
            /\ rm' = [rm EXCEPT !.pc = "cleanup", !.target_role = target_role]
    /\ UNCHANGED <<teams, members, invites, xfer, crm, perm, todos, todo_assignments, upd>>

\* leave_team, lines 252-266: the reads of the team and of the caller's row
leave_begin(team_id, current_user_id) ==
    /\ rm.pc = "idle"
    /\ LET err == leave_team_error(teams, members, team_id, current_user_id) IN
       IF err # "ok"
       THEN /\ lastOp' = Call("leave_team", team_id, current_user_id, current_user_id,
                              None, err)
            /\ rm' = rm
       ELSE /\ lastOp' = lastOp
            /\ rm' = [pc |-> "cleanup", op |-> "leave_team", team_id |-> team_id,
                      user_id |-> current_user_id, current_user_id |-> current_user_id,
                      current_role |-> get_member(members, team_id, current_user_id),
                      target_role |-> get_member(members, team_id, current_user_id)]
    /\ UNCHANGED <<teams, members, invites, xfer, crm, perm, todos, todo_assignments, upd>>

\* remove_member line 182, leave_team line 269
rm_cleanup ==
    /\ rm.pc = "cleanup"
    /\ todo_assignments' \in remove_user_from_team_todos_outcomes(todo_assignments, todos,
                                                                  rm.team_id, rm.user_id)
    /\ rm' = [rm EXCEPT !.pc = "delete"]
    /\ UNCHANGED <<teams, members, invites, lastOp, xfer, crm, perm, todos, upd>>

\* rm_delete deleting the row only if it still holds the role the check saw
rm_delete_cas ==
    /\ rm.pc = "delete"
    /\ members' = IF get_member(members, rm.team_id, rm.user_id) = rm.target_role
                  THEN team_repo_remove_member(members, rm.team_id, rm.user_id)
                  ELSE members
    /\ lastOp' = RaceCall(rm.op, rm.team_id, rm.current_user_id, rm.user_id, None,
                          rm.target_role, get_member(members, rm.team_id, rm.user_id))
    /\ rm' = RmIdle
    /\ UNCHANGED <<teams, invites, xfer, crm, perm, todos, todo_assignments, upd>>

\* remove_member line 184, leave_team line 271: TeamRepository.remove_member
rm_delete ==
    /\ rm.pc = "delete"
    /\ members' = team_repo_remove_member(members, rm.team_id, rm.user_id)
    /\ lastOp' = RaceCall(rm.op, rm.team_id, rm.current_user_id, rm.user_id, None,
                          rm.target_role, get_member(members, rm.team_id, rm.user_id))
    /\ rm' = RmIdle
    /\ UNCHANGED <<teams, invites, xfer, crm, perm, todos, todo_assignments, upd>>

\* update_member_role, lines 188-199: the reads of the team and of the actor's row
upd_begin(team_id, user_id, new_role, current_user_id) ==
    /\ upd.pc = "idle"
    /\ IF team_id \notin teams
       THEN /\ lastOp' = Call("update_member_role", team_id, current_user_id, user_id,
                              new_role, "team_not_found")
            /\ upd' = upd
       ELSE IF get_member(members, team_id, current_user_id) = None
       THEN /\ lastOp' = Call("update_member_role", team_id, current_user_id, user_id,
                              new_role, "no_permission")
            /\ upd' = upd
       ELSE /\ lastOp' = lastOp
            /\ upd' = [pc |-> "read_target", team_id |-> team_id, user_id |-> user_id,
                       new_role |-> new_role, current_user_id |-> current_user_id,
                       current_role |-> get_member(members, team_id, current_user_id),
                       target_role |-> None]
    /\ UNCHANGED <<teams, members, invites, xfer, crm, perm, todos, todo_assignments, rm>>

\* the checks of update_member_role, lines 202-224, on the actor role read
\* before and the target role read now
upd_check(current_user_id, user_id, new_role, current_role, target_role) ==
    IF target_role = None THEN "target_not_found"
    ELSE IF user_id = current_user_id THEN "self_change"
    ELSE IF target_role = "owner" THEN "target_is_owner"
    ELSE IF role_priorities_get(new_role) >= role_priorities_get(current_role)
    THEN "rank_too_high"
    ELSE "ok"

\* update_member_role, lines 201-224: the read of the target's row and the checks
upd_read_target ==
    /\ upd.pc = "read_target"
    /\ LET target_role == get_member(members, upd.team_id, upd.user_id)
           err == upd_check(upd.current_user_id, upd.user_id, upd.new_role,
                            upd.current_role, target_role) IN
       IF err # "ok"
       THEN /\ lastOp' = Call("update_member_role", upd.team_id, upd.current_user_id,
                              upd.user_id, upd.new_role, err)
            /\ upd' = UpdIdle
       ELSE /\ lastOp' = lastOp
            /\ upd' = [upd EXCEPT !.pc = "write", !.target_role = target_role]
    /\ UNCHANGED <<teams, members, invites, xfer, crm, perm, todos, todo_assignments, rm>>

\* update_member_role line 226: TeamRepository.update_member_role.  The
\* session still holds the target's row as read before; when the new role
\* equals the role of that object the unit of work may find nothing changed
\* and emit no UPDATE.
upd_write ==
    /\ upd.pc = "write"
    /\ members' \in
          {team_repo_update_member_role(members, upd.team_id, upd.user_id, upd.new_role)}
            \cup (IF upd.new_role = upd.target_role THEN {members} ELSE {})
    /\ lastOp' = RaceCall("update_member_role", upd.team_id, upd.current_user_id,
                          upd.user_id, upd.new_role, upd.target_role,
                          get_member(members, upd.team_id, upd.user_id))
    /\ upd' = UpdIdle
    /\ UNCHANGED <<teams, invites, xfer, crm, perm, todos, todo_assignments, rm>>

\* One remove_member and one update_member_role, each started while no request
\* has completed yet, and run to completion in any interleaving.
RaceNext ==
    \/ \E t \in TeamIds, x \in Users, u \in Users : lastOp = NoOp /\ rm_begin(t, x, u)
    \/ rm_read_target
    \/ rm_cleanup
    \/ rm_delete
    \/ \E t \in TeamIds, x \in Users, r \in RoleStrings, u \in Users :
            lastOp = NoOp /\ upd_begin(t, x, r, u)
    \/ upd_read_target
    \/ upd_write

\* the teams the race is run from: the creator owns the team, user 2 is an
\* admin or a manager, user 3 an editor or a viewer
RaceStores ==
    {m \in ConcStores :
        \A t \in TeamIds : /\ m[t][2] \in {<<"admin">>, <<"manager">>}
                           /\ m[t][3] \in {<<"editor">>, <<"viewer">>}}

RaceInit ==
    /\ teams = TeamIds
    /\ members \in RaceStores
    /\ invites = {}
    /\ lastOp = NoOp
    /\ xfer = XferIdle
    /\ crm = CrmIdle
    /\ perm = PermIdle
    /\ todos = {}
    /\ todo_assignments = {}
    /\ rm = RmIdle
    /\ upd = UpdIdle

SpecRace == RaceInit /\ [][RaceNext]_vars

\* C23: nothing locks or compares the target's row between the check and the
\* write of remove_member or of update_member_role: a request whose check has
\* passed on the roles it read applies its write whatever role the target's
\* row holds by then, so the two can interleave on one target with one
\* writing after the other has changed the row.
C23_UnguardedWrites ==
    /\ [](rm.pc \in {"cleanup", "delete"} /\ rm.op = "remove_member"
            => rm_check(rm.current_user_id, rm.user_id, rm.current_role,
                        rm.target_role) = "ok")
    /\ [](upd.pc = "write"
            => upd_check(upd.current_user_id, upd.user_id, upd.new_role,
                         upd.current_role, upd.target_role) = "ok")
    /\ [][rm.pc = "delete" /\ rm'.pc = "idle"
            => /\ get_member(members', rm.team_id, rm.user_id) = None
               /\ lastOp'.op = rm.op /\ lastOp'.result = "ok"]_vars
    /\ [][upd.pc = "write" /\ upd'.pc = "idle"
            => /\ lastOp'.op = "update_member_role" /\ lastOp'.result = "ok"
               /\ get_member(members, upd.team_id, upd.user_id) # None
                  /\ upd.new_role # upd.target_role
                    => get_member(members', upd.team_id, upd.user_id) = upd.new_role]_vars

\* an admin's remove_member has completed on a target that its check saw as
\* an editor or a viewer and that was an admin when the row was deleted
C23_Witness ==
    /\ lastOp.op = "remove_member" /\ lastOp.result = "ok"
    /\ get_member(members, lastOp.team_id, lastOp.current_user_id) = "admin"
    /\ lastOp.checked_role \in {"editor", "viewer"}
    /\ lastOp.found_role = "admin"
    /\ get_member(members, lastOp.team_id, lastOp.user_id) = None

(***************************************************************************)
(* transfer_ownership served concurrently with one leave_team or one       *)
(* remove_member, each started while no request has completed yet and run  *)
(* to completion in any interleaving of their reads and committed writes.  *)
(***************************************************************************)
HandoverNext ==
    \/ \E t \in TeamIds, x \in Users, u \in Users : lastOp = NoOp /\ xfer_begin(t, x, u)
    \/ xfer_read_new_owner
    \/ xfer_write_owner
    \/ xfer_write_editor
    \/ \E t \in TeamIds, u \in Users : lastOp = NoOp /\ leave_begin(t, u)
    \/ \E t \in TeamIds, x \in Users, u \in Users : lastOp = NoOp /\ rm_begin(t, x, u)
    \/ rm_read_target
    \/ rm_cleanup
    \/ rm_delete

SpecHandover == ConcInit /\ [][HandoverNext]_vars

HasOwner(m, team_id) == \E u \in Users : get_member(m, team_id, u) = "owner"

\* C30: under every interleaving of transfer_ownership from A to B with a
\* concurrent leave_team by B or remove_member targeting B, the team has an
\* owner once both requests have completed, and transfer_ownership reports
\* success only if B's role actually became owner.
C30_HandoverKeepsOwner ==
    /\ [](xfer.pc = "idle" /\ rm.pc = "idle" => \A t \in teams : HasOwner(members, t))
    /\ [][xfer.pc = "write_editor" /\ xfer'.pc = "idle" /\ lastOp'.result = "ok"
            => get_member(members', xfer.team_id, xfer.new_owner_id) = "owner"]_vars

====
